---- MODULE Spec2Model ----
(***************************************************************************)
(* A model of the Fence rate limiter of src/lib.rs.                        *)
(*                                                                         *)
(* Time is kept the way std::time keeps it: an Instant and a Duration are  *)
(* both a pair (secs, nanos) with 0 <= nanos < NANOS_PER_SEC.  The clock   *)
(* is monotonic and advances in quanta of half a second.                   *)
(* Every read of Instant::now() is a step of its own, so that time may     *)
(* pass between two reads, between a read and the use of its value, and    *)
(* while thread::sleep has the caller suspended.                           *)
(***************************************************************************)
EXTENDS Integers, FiniteSets, Sequences, TLC

\* ---------------------------------------------------------------- bounds
\* Largest argument given to from_secs (and seconds part of from_duration).
MaxSecs == 1
\* Largest argument given to from_millis, in clock quanta.
MaxQuanta == 3
\* The clock stops advancing once it has reached this many seconds.
MaxClockSecs == 3

\* ------------------------------------------------- std::time arithmetic
NANOS_PER_SEC == 1000000000
NANOS_PER_MILLI == 1000000
MILLIS_PER_SEC == 1000

\* Duration::new for an already normalised pair; Instants share the shape.
Duration(s, n) == [secs |-> s, nanos |-> n]

\* Duration::from_secs(s)
Duration_from_secs(s) == Duration(s, 0)

\* Duration::from_millis(m)
Duration_from_millis(m) ==
    Duration(m \div MILLIS_PER_SEC, (m % MILLIS_PER_SEC) * NANOS_PER_MILLI)

\* Instant + Duration (also used for Duration + Duration)
Add(t, d) ==
    LET n == t.nanos + d.nanos
    IN  IF n >= NANOS_PER_SEC
        THEN [secs |-> t.secs + d.secs + 1, nanos |-> n - NANOS_PER_SEC]
        ELSE [secs |-> t.secs + d.secs, nanos |-> n]

\* a < b on Instants
Less(a, b) == \/ a.secs < b.secs
              \/ (a.secs = b.secs /\ a.nanos < b.nanos)

\* a >= b on Instants
AtLeast(a, b) == ~Less(a, b)

\* a.duration_since(b), for b <= a
duration_since(a, b) ==
    IF a.nanos >= b.nanos
    THEN [secs |-> a.secs - b.secs, nanos |-> a.nanos - b.nanos]
    ELSE [secs |-> a.secs - b.secs - 1,
          nanos |-> a.nanos + NANOS_PER_SEC - b.nanos]

Zero == Duration(0, 0)
\* The clock's quantum: half a second, as a Duration and in milliseconds.
QuantumMillis == MILLIS_PER_SEC \div 2
Quantum == Duration(0, QuantumMillis * NANOS_PER_MILLI)
MaxInstant == Duration(MaxClockSecs, 0)
\* "no instant recorded yet"
NoInstant == [secs |-> 0 - 1, nanos |-> 0]

\* ------------------------------------------------------------ the Fence
\* Variant: the watermark starts at the construction instant itself.
Fence_from_duration_free(dur, t) == [duration |-> dur, block_until |-> t]

\* Fence::from_duration(dur), Instant::now() reading t
Fence_from_duration(dur, t) == [duration |-> dur, block_until |-> Add(t, dur)]

\* Variant: the seconds argument is taken for milliseconds.
Fence_from_secs_asMillis(s, t) == [duration |-> Duration_from_millis(s),
                                   block_until |-> Add(t, Duration_from_millis(s))]

\* Fence::from_secs(s)
Fence_from_secs(s, t) == Fence_from_duration(Duration_from_secs(s), t)

\* Fence::from_millis(m)
Fence_from_millis(m, t) == Fence_from_duration(Duration_from_millis(m), t)

\* Variant: `now <= self.block_until`.
Blocked_inclusive(f, n) == ~Less(f.block_until, n)

\* `now < self.block_until`, the test of both sleep() and allow()
Blocked(f, n) == Less(n, f.block_until)

\* Variant: now.duration_since(self.block_until), which saturates to zero.
SleepFor_reversed(f, n) == Zero

\* the argument sleep() hands to thread::sleep
SleepFor(f, n) == duration_since(f.block_until, n)

\* Variant: the new watermark is the old watermark plus the interval.
SleepRearmed_stale(f, r) == [f EXCEPT !.block_until = Add(f.block_until, f.duration)]

\* sleep(): self.block_until = Instant::now() + self.duration, fresh reading r
SleepRearmed(f, r) == [f EXCEPT !.block_until = Add(r, f.duration)]

\* Variant: the new watermark is the sampled reading, the interval forgotten.
AllowRearmed_noInterval(f, n) == [f EXCEPT !.block_until = n]

\* allow(): self.block_until = now + self.duration, sampled reading n
AllowRearmed(f, n) == [f EXCEPT !.block_until = Add(n, f.duration)]

\* ---------------------------------------------------------------- inputs
SecsInputs == 0 .. MaxSecs
MillisInputs == { k * QuantumMillis : k \in 0 .. MaxQuanta }
DurationInputs == { Duration(s, n) : s \in 0 .. MaxSecs, n \in {0, Quantum.nanos} }
Starts == { Zero, Quantum }

Constructed(t) ==
    { Fence_from_secs(s, t) : s \in SecsInputs }
      \cup { Fence_from_millis(m, t) : m \in MillisInputs }
      \cup { Fence_from_duration(d, t) : d \in DurationInputs }

VARIABLES
    clock,      \* the monotonic clock, what Instant::now() returns
    fence,      \* the Fence: [duration, block_until]
    pc,         \* each caller's position in sleep() / allow()
    now,        \* each caller's local `now`
    wake,       \* earliest instant at which a caller's thread::sleep ends
    asked,      \* the Duration a caller handed to thread::sleep
    t0,         \* history: the clock reading of the constructor
    armed,      \* history: the clock reading the watermark was computed from
    before,     \* history: the tests' `before` reading
    target,     \* history: before + (number of sleep() calls returned) * duration
    allowUsed,  \* history: some allow() call has started
    fresh,      \* history: no call has started on the fence yet
    lastTrue,   \* history: the last allow() that returned true
    sleptSince, \* history: a sleep() re-armed the fence since lastTrue
    last,       \* history: the call that completed last
    trio,       \* three fences built by the three constructors
    trioRes,    \* their last allow() results
    lock,       \* the caller holding the mutual-exclusion lock, if any
    seen,       \* each caller's watermark as its allow() compared against it
    result,     \* each caller's latest allow() result: "none", "true", "false"
    raced,      \* history: a caller compared while another was about to write
    hi,         \* history: the greatest reading of an allow() that returned true
    early       \* history: a true came less than the interval past `hi`

fenceVars == <<fence, armed>>
callVars == <<pc, now, wake, asked>>
histVars == <<t0, before, target, allowUsed, fresh, lastTrue, sleptSince, last>>
trioVars == <<trio, trioRes>>
raceVars == <<lock, seen, result, raced, hi, early>>
vars == <<clock, fenceVars, callVars, histVars, trioVars, raceVars>>

Callers == DOMAIN pc
\* the lock is free
NoOwner == "nobody"
Ctors == {"secs", "millis", "duration"}

NoTrue == [sample |-> NoInstant, ret |-> NoInstant]
NoFence == [duration |-> NoInstant, block_until |-> NoInstant]
NoCall == [op |-> "none", now |-> NoInstant, res |-> FALSE, entry |-> NoFence,
           armedEntry |-> NoInstant, suspended |-> FALSE, rearm |-> NoInstant,
           ret |-> NoInstant, after |-> NoInstant,
           prevTrue |-> NoTrue, slept |-> FALSE]

Init ==
    \E t \in Starts :
        /\ clock = t
        /\ fence \in Constructed(t)
        /\ t0 = t
        /\ armed = t
        /\ pc = [c \in {"main"} |-> "idle"]
        /\ now = [c \in {"main"} |-> NoInstant]
        /\ wake = [c \in {"main"} |-> NoInstant]
        /\ asked = [c \in {"main"} |-> NoInstant]
        /\ lock = NoOwner
        /\ seen = [c \in {"main"} |-> NoInstant]
        /\ result = [c \in {"main"} |-> "none"]
        /\ raced = FALSE
        /\ hi = NoInstant
        /\ early = FALSE
        /\ before = NoInstant
        /\ target = NoInstant
        /\ allowUsed = FALSE
        /\ fresh = TRUE
        /\ lastTrue = NoTrue
        /\ sleptSince = FALSE
        /\ last = NoCall
        /\ trio = [c \in Ctors |-> fence]
        /\ trioRes = [c \in Ctors |-> FALSE]

\* The clock advances: up to MaxInstant, and past it for as long as a
\* caller is suspended in a thread::sleep that has not run its time.
Tick ==
    /\ \/ Less(clock, MaxInstant)
       \/ \E c \in Callers : pc[c] = "sleeping" /\ Less(clock, wake[c])
    /\ clock' = Add(clock, Quantum)
    /\ UNCHANGED <<fenceVars, callVars, histVars, trioVars, raceVars>>

\* tests: `let before = time::Instant::now();` after the constructor
TakeBefore(c) ==
    /\ pc[c] = "idle"
    /\ fresh
    /\ before = NoInstant
    /\ before' = clock
    /\ target' = clock
    /\ UNCHANGED <<clock, fenceVars, callVars, t0, allowUsed, fresh, lastTrue,
                   sleptSince, last, trioVars, raceVars>>

\* sleep(): let now = time::Instant::now();
\* (no sleep() call begins once the clock has reached MaxInstant)
SleepSample(c) ==
    /\ pc[c] = "idle"
    /\ Less(clock, MaxInstant)
    /\ pc' = [pc EXCEPT ![c] = "sleep_check"]
    /\ now' = [now EXCEPT ![c] = clock]
    /\ fresh' = FALSE
    /\ last' = NoCall
    /\ UNCHANGED <<clock, fenceVars, wake, asked, t0, before, target, allowUsed,
                   lastTrue, sleptSince, trioVars, raceVars>>

\* sleep(): if now < self.block_until { thread::sleep(..) } -- the call begins
SleepSuspend(c) ==
    /\ pc[c] = "sleep_check"
    /\ Blocked(fence, now[c])
    /\ asked' = [asked EXCEPT ![c] = SleepFor(fence, now[c])]
    /\ wake' = [wake EXCEPT ![c] = Add(clock, asked'[c])]
    /\ pc' = [pc EXCEPT ![c] = "sleeping"]
    /\ UNCHANGED <<clock, fenceVars, now, histVars, trioVars, raceVars>>

\* sleep(): the test fails, no thread::sleep
SleepSkip(c) ==
    /\ pc[c] = "sleep_check"
    /\ ~Blocked(fence, now[c])
    /\ pc' = [pc EXCEPT ![c] = "sleep_rearm"]
    /\ UNCHANGED <<clock, fenceVars, now, wake, asked, histVars, trioVars, raceVars>>

\* Variant: the wait ends only if the clock is found exactly at the deadline.
SleepWake_exact(c) ==
    /\ pc[c] = "sleeping"
    /\ clock = wake[c]
    /\ pc' = [pc EXCEPT ![c] = "sleep_rearm"]
    /\ UNCHANGED <<clock, fenceVars, now, wake, asked, histVars, trioVars, raceVars>>

\* thread::sleep returns: never before the requested duration has passed
SleepWake(c) ==
    /\ pc[c] = "sleeping"
    /\ AtLeast(clock, wake[c])
    /\ pc' = [pc EXCEPT ![c] = "sleep_rearm"]
    /\ UNCHANGED <<clock, fenceVars, now, wake, asked, histVars, trioVars, raceVars>>

\* sleep(): self.block_until = time::Instant::now() + self.duration; return
SleepRearm(c) ==
    /\ pc[c] = "sleep_rearm"
    /\ fence' = SleepRearmed(fence, clock)
    /\ armed' = clock
    /\ pc' = [pc EXCEPT ![c] = "idle"]
    /\ wake' = [wake EXCEPT ![c] = NoInstant]
    /\ asked' = [asked EXCEPT ![c] = NoInstant]
    /\ target' = IF before = NoInstant THEN target ELSE Add(target, fence.duration)
    /\ sleptSince' = TRUE
    /\ last' = [op |-> "sleep", now |-> now[c], res |-> TRUE,
                entry |-> fence, armedEntry |-> armed,
                suspended |-> (wake[c] # NoInstant), rearm |-> clock,
                ret |-> clock, after |-> fence'.block_until,
                prevTrue |-> lastTrue, slept |-> sleptSince]
    /\ UNCHANGED <<clock, now, t0, before, allowUsed, fresh, lastTrue, trioVars, raceVars>>

\* allow(): let now = time::Instant::now();
AllowSample(c) ==
    /\ pc[c] = "idle"
    /\ pc' = [pc EXCEPT ![c] = "allow_check"]
    /\ now' = [now EXCEPT ![c] = clock]
    /\ allowUsed' = TRUE
    /\ fresh' = FALSE
    /\ before' = NoInstant
    /\ target' = NoInstant
    /\ last' = NoCall
    /\ UNCHANGED <<clock, fenceVars, wake, asked, t0, lastTrue, sleptSince, trioVars, raceVars>>

\* Variant: a denied allow() re-arms the fence from its sampled reading.
AllowDeny_rearms(c) ==
    /\ pc[c] = "allow_check"
    /\ Blocked(fence, now[c])
    /\ fence' = AllowRearmed(fence, now[c])
    /\ armed' = now[c]
    /\ pc' = [pc EXCEPT ![c] = "idle"]
    /\ last' = [op |-> "allow", now |-> now[c], res |-> FALSE,
                entry |-> fence, armedEntry |-> armed,
                suspended |-> FALSE, rearm |-> now[c], ret |-> clock,
                after |-> fence'.block_until,
                prevTrue |-> lastTrue, slept |-> sleptSince]
    /\ UNCHANGED <<clock, now, wake, asked, t0, before, target, allowUsed,
                   fresh, lastTrue, sleptSince, trioVars, raceVars>>

\* Variant: a blocked allow() waits for the watermark before it returns.
AllowDeny_waits(c) ==
    /\ pc[c] = "allow_check"
    /\ Blocked(fence, now[c])
    /\ AtLeast(clock, fence.block_until)
    /\ pc' = [pc EXCEPT ![c] = "idle"]
    /\ last' = [op |-> "allow", now |-> now[c], res |-> FALSE,
                entry |-> fence, armedEntry |-> armed,
                suspended |-> TRUE, rearm |-> NoInstant, ret |-> clock,
                after |-> fence.block_until,
                prevTrue |-> lastTrue, slept |-> sleptSince]
    /\ UNCHANGED <<clock, fenceVars, now, wake, asked, t0, before, target, allowUsed,
                   fresh, lastTrue, sleptSince, trioVars, raceVars>>

\* allow(): if now < self.block_until { return false; }
AllowDeny(c) ==
    /\ pc[c] = "allow_check"
    /\ Blocked(fence, now[c])
    /\ pc' = [pc EXCEPT ![c] = "idle"]
    /\ last' = [op |-> "allow", now |-> now[c], res |-> FALSE,
                entry |-> fence, armedEntry |-> armed,
                suspended |-> FALSE, rearm |-> NoInstant, ret |-> clock,
                after |-> fence.block_until,
                prevTrue |-> lastTrue, slept |-> sleptSince]
    /\ UNCHANGED <<clock, fenceVars, now, wake, asked, t0, before, target, allowUsed,
                   fresh, lastTrue, sleptSince, trioVars, raceVars>>

\* allow(): self.block_until = now + self.duration; true
AllowPass(c) ==
    /\ pc[c] = "allow_check"
    /\ ~Blocked(fence, now[c])
    /\ fence' = AllowRearmed(fence, now[c])
    /\ armed' = now[c]
    /\ pc' = [pc EXCEPT ![c] = "idle"]
    /\ lastTrue' = [sample |-> now[c], ret |-> clock]
    /\ sleptSince' = FALSE
    /\ last' = [op |-> "allow", now |-> now[c], res |-> TRUE,
                entry |-> fence, armedEntry |-> armed,
                suspended |-> FALSE, rearm |-> now[c], ret |-> clock,
                after |-> fence'.block_until,
                prevTrue |-> lastTrue, slept |-> sleptSince]
    /\ UNCHANGED <<clock, now, wake, asked, t0, before, target, allowUsed, fresh,
                   trioVars, raceVars>>

Next ==
    \/ Tick
    \/ \E c \in Callers : TakeBefore(c)
    \/ \E c \in Callers : SleepSample(c)
    \/ \E c \in Callers : SleepSuspend(c)
    \/ \E c \in Callers : SleepSkip(c)
    \/ \E c \in Callers : SleepWake(c)
    \/ \E c \in Callers : SleepRearm(c)
    \/ \E c \in Callers : AllowSample(c)
    \/ \E c \in Callers : AllowDeny(c)
    \/ \E c \in Callers : AllowPass(c)

Spec == Init /\ [][Next]_vars

\* The single caller of Spec, and the steps of a sleep() call already begun.
LiveCallers == {"main"}
SleepSteps ==
    \E c \in LiveCallers :
        SleepSuspend(c) \/ SleepSkip(c) \/ SleepWake(c) \/ SleepRearm(c)

\* Spec with the clock advancing and the host running a caller that is
\* inside sleep(): the host's clock and scheduler, which the code relies on.
SpecLive == Init /\ [][Next]_vars /\ WF_vars(Tick) /\ WF_vars(SleepSteps)

\* ------------------------------------------- three constructors, in step
\* One magnitude s (whole seconds), three fences built at the same instant:
\* from_secs(s), from_millis(1000 * s), from_duration(Duration::new(s, 0)).
TrioBuilt(s, t) ==
    [k \in Ctors |->
        CASE k = "secs" -> Fence_from_secs(s, t)
          [] k = "millis" -> Fence_from_millis(MILLIS_PER_SEC * s, t)
          [] OTHER -> Fence_from_duration(Duration(s, 0), t)]

InitCtor ==
    \E t \in Starts, s \in SecsInputs :
        /\ clock = t
        /\ trio = TrioBuilt(s, t)
        /\ trioRes = [k \in Ctors |-> FALSE]
        /\ fence = trio["duration"]
        /\ t0 = t
        /\ armed = t
        /\ pc = [c \in {"main"} |-> "idle"]
        /\ now = [c \in {"main"} |-> NoInstant]
        /\ wake = [c \in {"main"} |-> NoInstant]
        /\ asked = [c \in {"main"} |-> NoInstant]
        /\ lock = NoOwner
        /\ seen = [c \in {"main"} |-> NoInstant]
        /\ result = [c \in {"main"} |-> "none"]
        /\ raced = FALSE
        /\ hi = NoInstant
        /\ early = FALSE
        /\ before = NoInstant
        /\ target = NoInstant
        /\ allowUsed = FALSE
        /\ fresh = TRUE
        /\ lastTrue = NoTrue
        /\ sleptSince = FALSE
        /\ last = NoCall

\* sleep() / allow(): let now = time::Instant::now(); one reading for all three
TrioSample(c, op) ==
    /\ pc[c] = "idle"
    /\ pc' = [pc EXCEPT ![c] = op]
    /\ now' = [now EXCEPT ![c] = clock]
    /\ UNCHANGED <<clock, fenceVars, wake, asked, histVars, trioVars, raceVars>>

\* allow() on each of the three with the same sampled reading
TrioAllow(c) ==
    /\ pc[c] = "trio_allow"
    /\ trio' = [k \in Ctors |-> IF Blocked(trio[k], now[c])
                                THEN trio[k]
                                ELSE AllowRearmed(trio[k], now[c])]
    /\ trioRes' = [k \in Ctors |-> ~Blocked(trio[k], now[c])]
    /\ allowUsed' = TRUE
    /\ pc' = [pc EXCEPT ![c] = "idle"]
    /\ UNCHANGED <<clock, fenceVars, now, wake, asked, t0, before, target, fresh,
                   lastTrue, sleptSince, last, raceVars>>

\* sleep() on each of the three: every thread::sleep asked for is over, and
\* the second reading is the same for all three
TrioSleep(c) ==
    /\ pc[c] = "trio_sleep"
    /\ \A k \in Ctors :
          Blocked(trio[k], now[c]) =>
              AtLeast(clock, Add(now[c], SleepFor(trio[k], now[c])))
    /\ trio' = [k \in Ctors |-> SleepRearmed(trio[k], clock)]
    /\ sleptSince' = TRUE
    /\ pc' = [pc EXCEPT ![c] = "idle"]
    /\ UNCHANGED <<clock, fenceVars, now, wake, asked, t0, before, target, allowUsed,
                   fresh, lastTrue, last, trioRes, raceVars>>

NextCtor ==
    \/ Tick
    \/ \E c \in Callers : TrioSample(c, "trio_sleep")
    \/ \E c \in Callers : TrioSample(c, "trio_allow")
    \/ \E c \in Callers : TrioAllow(c)
    \/ \E c \in Callers : TrioSleep(c)

SpecCtor == InitCtor /\ [][NextCtor]_vars

\* ------------------------------------- two callers sharing one fence
\* Fence is Send and Sync, so two threads can reach the same fence.  Here
\* allow() runs statement by statement: the sample of the clock, the
\* comparison with the watermark, the write of the watermark.
Threads == {"t1", "t2"}

InitRace ==
    \E t \in Starts :
        /\ clock = t
        /\ fence \in Constructed(t)
        /\ t0 = t
        /\ armed = t
        /\ pc = [c \in Threads |-> "idle"]
        /\ now = [c \in Threads |-> NoInstant]
        /\ wake = [c \in Threads |-> NoInstant]
        /\ asked = [c \in Threads |-> NoInstant]
        /\ lock = NoOwner
        /\ seen = [c \in Threads |-> NoInstant]
        /\ result = [c \in Threads |-> "none"]
        /\ raced = FALSE
        /\ hi = NoInstant
        /\ early = FALSE
        /\ before = NoInstant
        /\ target = NoInstant
        /\ allowUsed = FALSE
        /\ fresh = TRUE
        /\ lastTrue = NoTrue
        /\ sleptSince = FALSE
        /\ last = NoCall
        /\ trio = [c \in Ctors |-> fence]
        /\ trioRes = [c \in Ctors |-> FALSE]

\* allow(): let now = time::Instant::now();
RaceSample(c) ==
    /\ pc[c] = "idle"
    /\ pc' = [pc EXCEPT ![c] = "allow_check"]
    /\ now' = [now EXCEPT ![c] = clock]
    /\ seen' = [seen EXCEPT ![c] = NoInstant]
    /\ result' = [result EXCEPT ![c] = "none"]
    /\ UNCHANGED <<clock, fenceVars, wake, asked, histVars, trioVars, lock,
                   raced, hi, early>>

\* allow(): if now < self.block_until { return false; }
RaceDeny(c) ==
    /\ pc[c] = "allow_check"
    /\ Blocked(fence, now[c])
    /\ seen' = [seen EXCEPT ![c] = fence.block_until]
    /\ result' = [result EXCEPT ![c] = "false"]
    /\ pc' = [pc EXCEPT ![c] = "idle"]
    /\ UNCHANGED <<clock, fenceVars, now, wake, asked, histVars, trioVars,
                   lock, raced, hi, early>>

\* allow(): the comparison fails, the caller goes on to line 51
RaceProceed(c) ==
    /\ pc[c] = "allow_check"
    /\ ~Blocked(fence, now[c])
    /\ seen' = [seen EXCEPT ![c] = fence.block_until]
    /\ raced' = (raced \/ \E o \in Callers \ {c} : pc[o] = "allow_write")
    /\ pc' = [pc EXCEPT ![c] = "allow_write"]
    /\ UNCHANGED <<clock, fenceVars, now, wake, asked, histVars, trioVars,
                   lock, result, hi, early>>

\* allow(): self.block_until = now + self.duration; true
RaceWrite(c) ==
    /\ pc[c] = "allow_write"
    /\ fence' = AllowRearmed(fence, now[c])
    /\ armed' = now[c]
    /\ result' = [result EXCEPT ![c] = "true"]
    /\ hi' = IF hi = NoInstant \/ Less(hi, now[c]) THEN now[c] ELSE hi
    /\ early' = (early \/ (hi # NoInstant /\ Less(now[c], Add(hi, fence.duration))))
    /\ pc' = [pc EXCEPT ![c] = "idle"]
    /\ UNCHANGED <<clock, now, wake, asked, histVars, trioVars, lock, seen,
                   raced>>

NextRace ==
    \/ Tick
    \/ \E c \in Callers : RaceSample(c)
    \/ \E c \in Callers : RaceDeny(c)
    \/ \E c \in Callers : RaceProceed(c)
    \/ \E c \in Callers : RaceWrite(c)

\* Two callers, no synchronization.
SpecRace == InitRace /\ [][NextRace]_vars

\* The callers' mutual-exclusion lock around each allow() call.
Acquire(c) ==
    /\ pc[c] = "idle"
    /\ lock = NoOwner
    /\ lock' = c
    /\ UNCHANGED <<clock, fenceVars, callVars, histVars, trioVars, seen,
                   result, raced, hi, early>>

Release(c) ==
    /\ pc[c] = "idle"
    /\ lock = c
    /\ lock' = NoOwner
    /\ UNCHANGED <<clock, fenceVars, callVars, histVars, trioVars, seen,
                   result, raced, hi, early>>

NextLock ==
    \/ Tick
    \/ \E c \in Callers : Acquire(c)
    \/ \E c \in Callers : Release(c)
    \/ \E c \in Callers : lock = c /\ RaceSample(c)
    \/ \E c \in Callers : lock = c /\ RaceDeny(c)
    \/ \E c \in Callers : lock = c /\ RaceProceed(c)
    \/ \E c \in Callers : lock = c /\ RaceWrite(c)

\* Two callers, every allow() call made while holding the lock.
SpecLock == InitRace /\ [][NextLock]_vars

\* ================================================================ claims

\* C1 (as claimed): after N consecutive sleep() calls on a fresh fence the
\* clock is at least N * duration past the `before` reading, a reading taken
\* after the constructor returned.
C1_MinimumSpacingFromBefore ==
    \A c \in Callers :
        (before # NoInstant /\ last.op = "sleep" /\ pc[c] = "idle")
            => AtLeast(clock, target)

\* C2 (as claimed): between two consecutive allow() calls that return true,
\* at least the interval lies between the instant the earlier one returned
\* and the reading the later one sampled.
C2_SpacingFromReturn ==
    (last.op = "allow" /\ last.res /\ last.prevTrue # NoTrue)
        => AtLeast(last.now, Add(last.prevTrue.ret, fence.duration))

\* C2 (amended): between two consecutive allow() calls that return true, at
\* least the interval lies between the readings the two calls sampled.
C2_SpacingFromSample ==
    (last.op = "allow" /\ last.res /\ last.prevTrue # NoTrue)
        => AtLeast(last.now, Add(last.prevTrue.sample, fence.duration))

C2_Witness ==
    /\ last.op = "allow" /\ last.res
    /\ last.prevTrue # NoTrue
    /\ fence.duration # Zero

\* C3: on a fence built at t0, an allow() that no sleep() and no allow()
\* returning true has preceded (the first allow() call, and each retry of
\* it) returns false when its reading is before t0 + duration and true when
\* it is at or after t0 + duration.
C3_FirstAllow ==
    (last.op = "allow" /\ last.prevTrue = NoTrue /\ ~last.slept)
        => (last.res <=> AtLeast(last.now, Add(t0, fence.duration)))

C3_Witness ==
    /\ last.op = "allow" /\ last.res
    /\ last.prevTrue = NoTrue /\ ~last.slept
    /\ fence.duration # Zero
    /\ last.now = Add(t0, fence.duration)

\* C4: after an allow() that returned true with reading t, a later allow()
\* with a reading before t + duration returns false, and (in a run of
\* allow() calls, no sleep() having re-armed the fence since) the first one
\* with a reading at or after t + duration returns true.
C4_RearmAfterAllow ==
    (last.op = "allow" /\ last.prevTrue # NoTrue)
        => LET open == Add(last.prevTrue.sample, fence.duration)
           IN  /\ Less(last.now, open) => ~last.res
               /\ (AtLeast(last.now, open) /\ ~last.slept) => last.res

C4_Witness ==
    /\ last.op = "allow" /\ last.res /\ ~last.slept
    /\ last.prevTrue # NoTrue
    /\ fence.duration # Zero
    /\ last.now = Add(last.prevTrue.sample, fence.duration)

\* C5: an allow() that returns false leaves the fence, watermark and
\* interval, exactly as it found it.
C5_DenyKeepsFence ==
    (last.op = "allow" /\ ~last.res)
        => (fence = last.entry /\ armed = last.armedEntry)

C5_Witness ==
    /\ last.op = "allow" /\ ~last.res
    /\ last.prevTrue # NoTrue
    /\ fence = last.entry

\* C6: a sleep() whose first reading is at or past the watermark does not
\* suspend, and sets the watermark to its second reading plus the interval.
C6_LateSleepRearmsFromNow ==
    (last.op = "sleep" /\ AtLeast(last.now, last.entry.block_until))
        => /\ ~last.suspended
           /\ fence.block_until = Add(last.rearm, fence.duration)

C6_Witness ==
    /\ last.op = "sleep" /\ ~last.suspended
    /\ Less(last.entry.block_until, last.now)
    /\ fence.duration # Zero
    /\ fence.block_until # Add(last.entry.block_until, fence.duration)

\* C7: when sleep() returns, the clock is at or past the watermark the call
\* found, which is the previous re-arm reading (or the construction reading)
\* plus the interval.
C7_SleepReturnsAfterWatermark ==
    last.op = "sleep"
        => /\ AtLeast(last.ret, last.entry.block_until)
           /\ last.entry.block_until = Add(last.armedEntry, fence.duration)

C7_Witness ==
    /\ last.op = "sleep" /\ last.suspended
    /\ last.armedEntry # t0

\* C8: fences built at the same instant by from_secs(s), from_millis(1000*s)
\* and from_duration of s seconds are equal, and stay equal, with equal
\* allow() results, under the same calls with the same clock readings.
C8_ConstructorsAgree ==
    \A a, b \in Ctors : trio[a] = trio[b] /\ trioRes[a] = trioRes[b]

C8_Witness ==
    /\ trio["secs"].duration.secs >= 1
    /\ \A k \in Ctors : trioRes[k]
    /\ sleptSince
    /\ \A c \in Callers : pc[c] = "idle"

\* C9: a fence of interval zero never blocks: no sleep() suspends, no
\* allow() returns false, and no reading is before the watermark.
C9_ZeroNeverBlocks ==
    fence.duration = Zero
        => /\ \A c \in Callers :
                /\ pc[c] # "sleeping"
                /\ pc[c] \in {"sleep_check", "allow_check"}
                      => ~Blocked(fence, now[c])
           /\ last.op = "allow" => last.res
           /\ last.op = "sleep" => ~last.suspended

C9_Witness ==
    /\ fence.duration = Zero
    /\ last.op = "allow" /\ last.res /\ last.slept
    /\ last.now = last.entry.block_until

\* C10: allow() never waits: once it has sampled the clock it can complete
\* at once, whatever the clock and the watermark are, and it has not
\* suspended when it returns.
C10_AllowNeverWaits ==
    /\ \A c \in Callers :
          pc[c] = "allow_check" => ENABLED (AllowDeny(c) \/ AllowPass(c))
    /\ last.op = "allow" => (last.res \in BOOLEAN /\ ~last.suspended)

C10_Witness ==
    \E c \in Callers :
        /\ pc[c] = "allow_check"
        /\ Blocked(fence, now[c])
        /\ Less(clock, fence.block_until)

\* C11 (as claimed): right after any call completes -- sleep(), allow()
\* returning true, allow() returning false -- the watermark is the call's
\* instant (sleep(): its second reading; allow(): its sampled reading) plus
\* the interval.
C11_WatermarkAfterAnyCall ==
    /\ last.op = "sleep" => fence.block_until = Add(last.rearm, fence.duration)
    /\ last.op = "allow" => fence.block_until = Add(last.now, fence.duration)

\* C11 (amended): right after sleep() the watermark is its second reading
\* plus the interval, right after an allow() that returned true it is the
\* sampled reading plus the interval, and right after an allow() that
\* returned false it is the watermark the call found.
C11_WatermarkAfterRearm ==
    /\ last.op = "sleep" => fence.block_until = Add(last.rearm, fence.duration)
    /\ (last.op = "allow" /\ last.res)
          => fence.block_until = Add(last.now, fence.duration)
    /\ (last.op = "allow" /\ ~last.res)
          => fence.block_until = last.entry.block_until

C11_Witness ==
    /\ last.op = "allow" /\ ~last.res
    /\ Less(last.armedEntry, last.now)
    /\ fence.block_until # Add(last.now, fence.duration)

\* C12 (as claimed): for every interval, zero included, right after an
\* allow() that returned true its sampled reading is strictly before the new
\* watermark.
C12_ClosedAfterTrue ==
    (last.op = "allow" /\ last.res) => Blocked(fence, last.now)

\* C12 (amended): for every interval greater than zero, right after an
\* allow() that returned true its sampled reading is strictly before the new
\* watermark, and an allow() sampling that same clock value returns false.
C12_ClosedAfterTrueNonZero ==
    fence.duration # Zero
        => /\ (last.op = "allow" /\ last.res) => Blocked(fence, last.now)
           /\ (last.op = "allow" /\ last.prevTrue # NoTrue
                 /\ last.now = last.prevTrue.sample) => ~last.res

C12_Witness ==
    /\ fence.duration # Zero
    /\ last.op = "allow" /\ ~last.res /\ ~last.slept
    /\ last.now = last.prevTrue.sample

\* C13: the watermark is never more than the interval past the clock, and
\* the Duration a blocked sleep() hands to thread::sleep is the watermark
\* minus the sampled reading: more than zero, at most the interval.
C13_WatermarkWithinInterval ==
    /\ AtLeast(Add(clock, fence.duration), fence.block_until)
    /\ \A c \in Callers :
          pc[c] = "sleeping"
              => /\ Add(now[c], asked[c]) = fence.block_until
                 /\ asked[c] # Zero
                 /\ AtLeast(fence.duration, asked[c])

C13_Witness ==
    \E c \in Callers :
        /\ pc[c] = "sleeping"
        /\ asked[c] # fence.duration
        /\ armed # t0

\* C14: with the clock advancing and the caller being run, every sleep()
\* call that has begun returns.
C14_SleepReturns ==
    \A c \in LiveCallers :
        (pc[c] \in {"sleep_check", "sleeping", "sleep_rearm"}) ~> (pc[c] = "idle")

C14_Witness ==
    /\ last.op = "sleep" /\ last.suspended
    /\ \A c \in LiveCallers : pc[c] = "idle"
    /\ Less(MaxInstant, last.ret)

\* C15: without synchronization two allow() calls reach a state where both
\* have returned true with readings less than the interval apart, having
\* both compared against the same old watermark (C15_Witness); and a true
\* comes less than the interval past an earlier one only after such an
\* interleaving, a comparison made while another caller was about to write.
C15_EarlyOnlyByRace ==
    early => raced

C15_Witness ==
    \E a, b \in Callers :
        /\ a # b
        /\ fence.duration # Zero
        /\ pc[a] = "idle" /\ pc[b] = "idle"
        /\ result[a] = "true" /\ result[b] = "true"
        /\ seen[a] = seen[b]
        /\ Less(now[a], Add(now[b], fence.duration))
        /\ Less(now[b], Add(now[a], fence.duration))

\* C16: with every allow() call made under the callers' lock, no allow()
\* returns true with a reading less than the interval past the reading of
\* any earlier true, by whichever caller; the readings of two callers'
\* latest trues are at least the interval apart.
C16_LockedOpeningsSpaced ==
    /\ ~early
    /\ ~raced
    /\ \A a, b \in Callers :
          (a # b /\ result[a] = "true" /\ result[b] = "true")
              => \/ AtLeast(now[a], Add(now[b], fence.duration))
                 \/ AtLeast(now[b], Add(now[a], fence.duration))

C16_Witness ==
    \E a, b \in Callers :
        /\ a # b
        /\ fence.duration # Zero
        /\ result[a] = "true" /\ result[b] = "true"
        /\ lock = NoOwner
        /\ now[b] = Add(now[a], fence.duration)

\* C17: for one caller mixing sleep() and allow(), every gate opening (the
\* reading of an allow() that returns true, the second reading of a sleep())
\* is at least the interval past the opening before it, and the first one
\* at least the interval past the construction reading.
C17_OpeningsSpaced ==
    (last.op = "sleep" \/ (last.op = "allow" /\ last.res))
        => /\ AtLeast(last.rearm, Add(last.armedEntry, fence.duration))
           /\ (last.prevTrue = NoTrue /\ ~last.slept) => last.armedEntry = t0
           /\ armed = last.rearm

C17_Witness ==
    /\ last.op = "sleep" /\ ~last.slept
    /\ last.prevTrue # NoTrue
    /\ last.prevTrue.sample # t0
    /\ last.prevTrue.sample = last.armedEntry
    /\ fence.duration # Zero

\* C18: the watermark never moves backwards: after every call it is at or
\* past the watermark the call found, and every re-arm is computed from a
\* reading at or past that watermark.
C18_WatermarkMonotone ==
    last.op # "none"
        => /\ AtLeast(fence.block_until, last.entry.block_until)
           /\ last.rearm # NoInstant
                 => AtLeast(last.rearm, last.entry.block_until)

C18_Witness ==
    /\ last.op = "sleep" /\ last.suspended
    /\ Less(last.entry.block_until, last.rearm)
    /\ last.slept

TypeOK ==
    /\ fence.duration.nanos < NANOS_PER_SEC
    /\ fence.block_until.nanos < NANOS_PER_SEC
    /\ clock.nanos < NANOS_PER_SEC
====
